---- MODULE Spec2Model ----
(***************************************************************************)
(* GDD manager (gdd-manager.ts): one stored document (YAML frontmatter +   *)
(* markdown body) and the manageGDD operation that loads it, performs one  *)
(* action on the parsed copy and, for mutating actions, writes it back.    *)
(*                                                                         *)
(* JavaScript values are modelled as follows.                              *)
(*  - an object is a function whose DOMAIN is the set of its own keys, so  *)
(*    a key that was omitted is simply not in the DOMAIN;                  *)
(*  - a value that may be undefined is a sequence: <<>> is undefined,      *)
(*    <<v>> is the value v;                                                *)
(*  - a string holding text is a non-empty sequence of lines (the result   *)
(*    of split('\n')), so the empty string is <<Blank>> and s + "\n" + t   *)
(*    is s \o t;                                                           *)
(*  - a thrown exception is a result record with ok = FALSE.               *)
(***************************************************************************)
EXTENDS Integers, Sequences, FiniteSets, TLC

VARIABLES file, prevFile, call, resp, writes, inflight

vars == <<file, prevFile, call, resp, writes, inflight>>

\* Bound of the model: the number of successful writes in one run.
MaxWrites == 2

(***************************************************************************)
(* JavaScript helpers                                                      *)
(***************************************************************************)
Has(obj, key) == key \in DOMAIN obj

\* obj.key, undefined when the key is absent
Field(obj, key) == IF key \in DOMAIN obj THEN <<obj[key]>> ELSE <<>>

\* truthiness of a possibly undefined string / boolean
TruthyStr(opt) == opt # <<>> /\ opt[1] # ""
TruthyBool(opt) == opt # <<>> /\ opt[1]

\* { ...a, ...b }
Spread(a, b) ==
  [k \in (DOMAIN a) \cup (DOMAIN b) |-> IF k \in DOMAIN b THEN b[k] ELSE a[k]]

\* array with element i replaced
SetAt(arr, i, v) == [arr EXCEPT ![i] = v]

\* Array.prototype.findIndex over the ids of a list of objects (0 = not found)
FindIndexById(arr, id) ==
  IF \E i \in DOMAIN arr : Field(arr[i], "id") = <<id>>
  THEN CHOOSE i \in DOMAIN arr :
         /\ Field(arr[i], "id") = <<id>>
         /\ \A j \in 1..(i - 1) : Field(arr[j], "id") # <<id>>
  ELSE 0

\* the elements of arr that satisfy Test, in order (Array.prototype.filter)
Filter(arr, Test(_)) == SelectSeq(arr, Test)

Throw(message) == [ok |-> FALSE, err |-> message]
Return(value) == [ok |-> TRUE, val |-> value]

\* true when two elements of the list carry the same id (Set has/add loop)
HasDuplicateIds(arr) ==
  \E i, j \in DOMAIN arr : i < j /\ Field(arr[i], "id") = Field(arr[j], "id")

(***************************************************************************)
(* Text                                                                    *)
(***************************************************************************)
\* a line: h = number of leading '#' of a heading line (0: not a heading)
Blank == [h |-> 0, t |-> ""]
Text(s) == [h |-> 0, t |-> s]
Heading(level, s) == [h |-> level, t |-> s]

RECURSIVE DropLeadingBlank(_)
DropLeadingBlank(lines) ==
  IF lines # <<>> /\ Head(lines) = Blank THEN DropLeadingBlank(Tail(lines))
  ELSE lines

RECURSIVE DropTrailingBlank(_)
DropTrailingBlank(lines) ==
  IF lines # <<>> /\ lines[Len(lines)] = Blank
  THEN DropTrailingBlank(SubSeq(lines, 1, Len(lines) - 1))
  ELSE lines

\* lines.join('\n'): the empty array joins to the empty string
Join(lines) == IF lines = <<>> THEN <<Blank>> ELSE lines

\* String.prototype.trim at line granularity
Trim(str) ==
  LET t == DropTrailingBlank(DropLeadingBlank(str))
  IN IF t = <<>> THEN <<Blank>> ELSE t

(***************************************************************************)
(* Stored text                                                             *)
(*                                                                         *)
(* The stored file is a record: exists (is there a file), fenced (does the *)
(* text match the frontmatter regex), yaml (what js-yaml decodes the       *)
(* fenced block to: kind "invalid" for a syntax error, kind "map" with the *)
(* mapping, kind "scalar" with a number) and body (the lines after the     *)
(* closing fence line).  A mapping's text may hold comments, which the     *)
(* decoded value does not have.  A decoded number is [number |-> n]: a     *)
(* value without own properties.                                           *)
(***************************************************************************)
NoFile == [exists |-> FALSE]

\* yaml.load / yaml.dump of a JSON-like value (library, src has no copy)
IsNumber(v) == "number" \in DOMAIN v

\* the own enumerable properties of a value, as object spread copies them
OwnProperties(v) == IF IsNumber(v) THEN <<>> ELSE v

yamlLoad(y) ==
  IF y.kind = "invalid" THEN Throw("Invalid YAML frontmatter")
  ELSE IF y.kind = "scalar" THEN Return([number |-> y.value])
  ELSE Return(y.map)

\* the keys the frontmatter schema declares
TypedKeys == {"project", "version", "milestones", "features"}

yamlDump(frontmatter) ==
  IF IsNumber(frontmatter) THEN [kind |-> "scalar", value |-> frontmatter.number]
  ELSE [kind |-> "map", map |-> frontmatter, comments |-> FALSE]

\* a parser whose pattern lacks the \s* after the closing fence: the body
\* keeps its leading blank lines
parseFrontmatter_KeepBlank(raw) ==
  IF ~raw.fenced THEN Throw("Invalid GDD format: Missing frontmatter")
  ELSE LET loaded == yamlLoad(raw.yaml)
       IN IF ~loaded.ok THEN loaded
          ELSE Return([frontmatter |-> loaded.val, content |-> raw.body])

\* a parser that takes text without a fenced block as a body with an empty
\* mapping
parseFrontmatter_Lenient(raw) ==
  IF ~raw.fenced
  THEN Return([frontmatter |-> <<>>, content |-> Join(DropLeadingBlank(raw.body))])
  ELSE LET loaded == yamlLoad(raw.yaml)
       IN IF ~loaded.ok THEN loaded
          ELSE Return([frontmatter |-> loaded.val,
                       content |-> Join(DropLeadingBlank(raw.body))])

\* /^---\s*\n([\s\S]*?)\n---\s*\n([\s\S]*)$/ : the greedy \s* after the
\* closing fence swallows every leading blank line of the body
parseFrontmatter(raw) ==
  IF ~raw.fenced THEN Throw("Invalid GDD format: Missing frontmatter")
  ELSE LET loaded == yamlLoad(raw.yaml)
       IN IF ~loaded.ok THEN loaded
          ELSE Return([frontmatter |-> loaded.val,
                       content |-> Join(DropLeadingBlank(raw.body))])

\* a writer that emits the declared keys only
serializeGDD_TypedKeysOnly(gdd) ==
  [exists |-> TRUE, fenced |-> TRUE,
   yaml |-> IF IsNumber(gdd.frontmatter) THEN yamlDump(gdd.frontmatter)
            ELSE yamlDump([k \in DOMAIN gdd.frontmatter \cap TypedKeys |->
                             gdd.frontmatter[k]]),
   body |-> <<Blank>> \o gdd.content]

\* `---\n${yaml}---\n\n${content}`
serializeGDD(gdd) ==
  [exists |-> TRUE, fenced |-> TRUE,
   yaml |-> yamlDump(gdd.frontmatter),
   body |-> <<Blank>> \o gdd.content]

(***************************************************************************)
(* Markdown sections: a Map<string, string> in insertion order             *)
(***************************************************************************)
MapHas(m, key) == \E i \in DOMAIN m : m[i].name = key

MapIndex(m, key) == CHOOSE i \in DOMAIN m : m[i].name = key

MapGet(m, key) == m[MapIndex(m, key)].content

MapSet(m, key, value) ==
  IF MapHas(m, key)
  THEN [m EXCEPT ![MapIndex(m, key)] = [name |-> key, content |-> value]]
  ELSE Append(m, [name |-> key, content |-> value])

RECURSIVE ScanLines(_, _, _, _)
ScanLines(lines, currentSection, currentContent, sections) ==
  LET flushed == IF currentSection # ""
                 THEN MapSet(sections, currentSection, Trim(Join(currentContent)))
                 ELSE sections
  IN IF lines = <<>> THEN flushed
     ELSE IF Head(lines).h > 0
          THEN ScanLines(Tail(lines), Head(lines).t, <<>>, flushed)
          ELSE ScanLines(Tail(lines), currentSection,
                         Append(currentContent, Head(lines)), sections)

parseMarkdownSections(content) == ScanLines(content, "", <<>>, <<>>)

RECURSIVE JoinSections(_)
JoinSections(sections) ==
  IF sections = <<>> THEN <<Blank>>
  ELSE LET first == <<Heading(1, Head(sections).name), Blank>> \o Head(sections).content
       IN IF Len(sections) = 1 THEN first
          ELSE first \o <<Blank>> \o JoinSections(Tail(sections))

\* `${content}\n\n# ${section}\n\n${newContent}`
NewSection(content, section, newContent) ==
  content \o <<Blank, Heading(1, section), Blank>> \o newContent

\* operation is <<>> when the parameter was omitted (default 'replace')
updateContentSection(content, section, newContent, operation) ==
  LET sections == parseMarkdownSections(content)
  IN IF ~MapHas(sections, section)
     THEN NewSection(content, section, newContent)
     ELSE LET existingContent == MapGet(sections, section)
              updatedContent ==
                IF operation = <<"append">> THEN existingContent \o <<Blank>> \o newContent
                ELSE IF operation = <<"prepend">> THEN newContent \o <<Blank>> \o existingContent
                ELSE newContent
          IN JoinSections(MapSet(sections, section, updatedContent))

(***************************************************************************)
(* Entity operations on the parsed frontmatter                             *)
(***************************************************************************)
\* addFeature without the loop over the supplied feature's task ids
addFeature_NoTaskIdCheck(frontmatter, feature) ==
  IF ~Has(frontmatter, "features") THEN Throw("TypeError")
  ELSE IF \E i \in DOMAIN frontmatter.features :
            Field(frontmatter.features[i], "id") = Field(feature, "id")
  THEN Throw("Feature already exists")
  ELSE IF ~Has(frontmatter, "milestones") THEN Throw("TypeError")
  ELSE IF ~\E i \in DOMAIN frontmatter.milestones :
             Field(frontmatter.milestones[i], "id") = Field(feature, "milestone")
  THEN Throw("Referenced milestone does not exist")
  ELSE IF ~Has(feature, "tasks") THEN Throw("TypeError")
  ELSE Return(Spread(frontmatter,
                     [features |-> Append(frontmatter.features, feature)]))

addFeature(frontmatter, feature) ==
  IF ~Has(frontmatter, "features") THEN Throw("TypeError")
  ELSE IF \E i \in DOMAIN frontmatter.features :
            Field(frontmatter.features[i], "id") = Field(feature, "id")
  THEN Throw("Feature already exists")
  ELSE IF ~Has(frontmatter, "milestones") THEN Throw("TypeError")
  ELSE IF ~\E i \in DOMAIN frontmatter.milestones :
             Field(frontmatter.milestones[i], "id") = Field(feature, "milestone")
  THEN Throw("Referenced milestone does not exist")
  ELSE IF ~Has(feature, "tasks") THEN Throw("TypeError")
  ELSE IF HasDuplicateIds(feature.tasks) THEN Throw("Duplicate task ID")
  ELSE Return(Spread(frontmatter,
                     [features |-> Append(frontmatter.features, feature)]))

\* a merge in which the stored fields win: { ...updates, ...existingFeature }
MergeFeature_ExistingWins(existingFeature, updates) == Spread(updates, existingFeature)

\* { ...existingFeature, ...updates }
MergeFeature(existingFeature, updates) == Spread(existingFeature, updates)

updateFeature(frontmatter, featureId, updates) ==
  IF ~Has(frontmatter, "features") THEN Throw("TypeError")
  ELSE LET featureIndex == FindIndexById(frontmatter.features, featureId)
       IN IF featureIndex = 0 THEN Throw("Feature not found")
          ELSE LET existingFeature == frontmatter.features[featureIndex]
                   updatedFeature == MergeFeature(existingFeature, updates)
               IN IF /\ TruthyStr(Field(updates, "milestone"))
                     /\ ~Has(frontmatter, "milestones")
                  THEN Throw("TypeError")
                  ELSE IF /\ TruthyStr(Field(updates, "milestone"))
                          /\ ~\E i \in DOMAIN frontmatter.milestones :
                                Field(frontmatter.milestones[i], "id")
                                  = Field(updates, "milestone")
                  THEN Throw("Referenced milestone does not exist")
                  ELSE Return(Spread(frontmatter,
                         [features |-> SetAt(frontmatter.features, featureIndex,
                                             updatedFeature)]))

\* the duplicate check of addTaskToFeature: does the feature hold the task id
TaskIdTaken_AnyFeature(frontmatter, feature, task) ==
  \E k \in DOMAIN frontmatter.features :
    /\ Has(frontmatter.features[k], "tasks")
    /\ \E i \in DOMAIN frontmatter.features[k].tasks :
         Field(frontmatter.features[k].tasks[i], "id") = Field(task, "id")

\* feature.tasks.find(t => t.id === task.id)
TaskIdTaken(frontmatter, feature, task) ==
  \E i \in DOMAIN feature.tasks : Field(feature.tasks[i], "id") = Field(task, "id")

\* an addTaskToFeature without the duplicate check
addTaskToFeature_NoCheck(frontmatter, featureId, task) ==
  IF ~Has(frontmatter, "features") THEN Throw("TypeError")
  ELSE LET featureIndex == FindIndexById(frontmatter.features, featureId)
       IN IF featureIndex = 0 THEN Throw("Feature not found")
          ELSE LET feature == frontmatter.features[featureIndex]
               IN IF ~Has(feature, "tasks") THEN Throw("TypeError")
                  ELSE Return(Spread(frontmatter,
                         [features |-> SetAt(frontmatter.features, featureIndex,
                            Spread(feature, [tasks |-> Append(feature.tasks, task)]))]))

addTaskToFeature(frontmatter, featureId, task) ==
  IF ~Has(frontmatter, "features") THEN Throw("TypeError")
  ELSE LET featureIndex == FindIndexById(frontmatter.features, featureId)
       IN IF featureIndex = 0 THEN Throw("Feature not found")
          ELSE LET feature == frontmatter.features[featureIndex]
               IN IF ~Has(feature, "tasks") THEN Throw("TypeError")
                  ELSE IF TaskIdTaken(frontmatter, feature, task)
                  THEN Throw("Task already exists in feature")
                  ELSE Return(Spread(frontmatter,
                         [features |-> SetAt(frontmatter.features, featureIndex,
                            Spread(feature, [tasks |-> Append(feature.tasks, task)]))]))

\* the loop run from the last feature to the first
RECURSIVE LastFeatureWithTask(_, _, _)
LastFeatureWithTask(features, taskId, i) ==
  LET k == Len(features) + 1 - i
  IN IF i > Len(features) THEN 0
     ELSE IF ~Has(features[k], "tasks") THEN -1
     ELSE IF FindIndexById(features[k].tasks, taskId) # 0 THEN k
     ELSE LastFeatureWithTask(features, taskId, i + 1)

\* the loop over features: index of the first feature holding the task, 0 when
\* none does, -1 when a feature without a tasks list is reached first
RECURSIVE FirstFeatureWithTask(_, _, _)
FirstFeatureWithTask(features, taskId, i) ==
  IF i > Len(features) THEN 0
  ELSE IF ~Has(features[i], "tasks") THEN -1
  ELSE IF FindIndexById(features[i].tasks, taskId) # 0 THEN i
  ELSE FirstFeatureWithTask(features, taskId, i + 1)

updateTask(frontmatter, taskId, updates) ==
  IF ~Has(frontmatter, "features") THEN Throw("TypeError")
  ELSE LET i == FirstFeatureWithTask(frontmatter.features, taskId, 1)
       IN IF i = -1 THEN Throw("TypeError")
          ELSE IF i = 0 THEN Throw("Task not found")
          ELSE LET feature == frontmatter.features[i]
                   taskIndex == FindIndexById(feature.tasks, taskId)
                   updatedTask == Spread(feature.tasks[taskIndex], updates)
                   updatedTasks == SetAt(feature.tasks, taskIndex, updatedTask)
                   updatedFeature == Spread(feature, [tasks |-> updatedTasks])
               IN Return(Spread(frontmatter,
                    [features |-> SetAt(frontmatter.features, i, updatedFeature)]))

(***************************************************************************)
(* Queries                                                                 *)
(***************************************************************************)
\* the value JavaScript calls undefined, as response data
Undefined == [undefined |-> TRUE]

\* arr.map(F)
Map(arr, F(_)) == [k \in 1..Len(arr) |-> F(arr[k])]

queryMilestones(frontmatter, milestoneId, includeFeatures) ==
  IF ~Has(frontmatter, "milestones")
  THEN IF TruthyStr(milestoneId) \/ TruthyBool(includeFeatures)
       THEN Throw("TypeError")
       ELSE Return(Undefined)
  ELSE LET milestones ==
             IF TruthyStr(milestoneId)
             THEN Filter(frontmatter.milestones,
                         LAMBDA m : Field(m, "id") = milestoneId)
             ELSE frontmatter.milestones
       IN IF ~TruthyBool(includeFeatures) THEN Return(milestones)
          ELSE IF milestones # <<>> /\ ~Has(frontmatter, "features")
          THEN Throw("TypeError")
          ELSE Return(Map(milestones, LAMBDA milestone :
                 Spread(milestone,
                   [features |-> Filter(frontmatter.features,
                      LAMBDA f : Field(f, "milestone") = Field(milestone, "id"))])))

\* options: a record of the four optional values
queryFeatures(frontmatter, options) ==
  IF ~Has(frontmatter, "features")
  THEN IF \/ TruthyStr(options.featureId) \/ TruthyStr(options.milestone)
          \/ TruthyStr(options.priority) \/ ~TruthyBool(options.includeTasks)
       THEN Throw("TypeError")
       ELSE Return(Undefined)
  ELSE LET byId == IF TruthyStr(options.featureId)
                   THEN Filter(frontmatter.features,
                               LAMBDA f : Field(f, "id") = options.featureId)
                   ELSE frontmatter.features
           byMilestone == IF TruthyStr(options.milestone)
                          THEN Filter(byId,
                                 LAMBDA f : Field(f, "milestone") = options.milestone)
                          ELSE byId
           byPriority == IF TruthyStr(options.priority)
                         THEN Filter(byMilestone,
                                LAMBDA f : Field(f, "priority") = options.priority)
                         ELSE byMilestone
       IN IF ~TruthyBool(options.includeTasks)
          THEN Return(Map(byPriority, LAMBDA f : Spread(f, [tasks |-> <<>>])))
          ELSE Return(byPriority)

\* { ...task, featureId: feature.id } for the tasks of one feature that pass
\* the task filter
TasksOfFeature(feature, taskId) ==
  Map(Filter(feature.tasks,
             LAMBDA task : ~(TruthyStr(taskId) /\ Field(task, "id") # taskId)),
      LAMBDA task : IF Has(feature, "id")
                    THEN Spread(task, [featureId |-> feature.id])
                    ELSE task)

RECURSIVE QueryTasksFrom(_, _, _, _)
QueryTasksFrom(features, featureId, taskId, i) ==
  IF i > Len(features) THEN Return(<<>>)
  ELSE IF TruthyStr(featureId) /\ Field(features[i], "id") # featureId
  THEN QueryTasksFrom(features, featureId, taskId, i + 1)
  ELSE IF ~Has(features[i], "tasks") THEN Throw("TypeError")
  ELSE LET rest == QueryTasksFrom(features, featureId, taskId, i + 1)
       IN IF ~rest.ok THEN rest
          ELSE Return(TasksOfFeature(features[i], taskId) \o rest.val)

queryTasks(frontmatter, featureId, taskId) ==
  IF ~Has(frontmatter, "features") THEN Throw("TypeError")
  ELSE QueryTasksFrom(frontmatter.features, featureId, taskId, 1)

(***************************************************************************)
(* Validation                                                              *)
(***************************************************************************)
\* a scalar read from YAML carries its type: [type |-> "string" | "number"]
IsString(v) == v.type = "string"

GDDTaskSchema(task) == Has(task, "id") /\ Has(task, "title")

GDDMilestoneSchema(milestone) == Has(milestone, "id") /\ Has(milestone, "title")

GDDFeatureSchema(feature) ==
  /\ Has(feature, "id") /\ Has(feature, "title") /\ Has(feature, "milestone")
  /\ Has(feature, "priority") /\ feature.priority \in {"P1", "P2", "P3"}
  /\ Has(feature, "acceptance")
  /\ Has(feature, "tasks")
  /\ \A i \in DOMAIN feature.tasks : GDDTaskSchema(feature.tasks[i])

GDDFrontmatterSchema(frontmatter) ==
  /\ Has(frontmatter, "project")
  /\ Has(frontmatter, "version") /\ IsString(frontmatter.version)
  /\ Has(frontmatter, "milestones")
  /\ \A i \in DOMAIN frontmatter.milestones :
       GDDMilestoneSchema(frontmatter.milestones[i])
  /\ Has(frontmatter, "features")
  /\ \A i \in DOMAIN frontmatter.features :
       GDDFeatureSchema(frontmatter.features[i])

\* the loop without the Set.add: no id is ever seen twice
DuplicateErrors_NeverSeen(arr, message) == <<>>

\* one message per element whose id was already seen (Set has/add loop)
DuplicateErrors(arr, message) ==
  Map(Filter([j \in 1..Len(arr) |->
                [hit |-> \E i \in 1..(j - 1) : Field(arr[i], "id") = Field(arr[j], "id"),
                 id |-> Field(arr[j], "id")]],
             LAMBDA x : x.hit),
      LAMBDA x : [msg |-> message, id |-> x.id])

RECURSIVE Flatten(_)
Flatten(seqs) == IF seqs = <<>> THEN <<>> ELSE Head(seqs) \o Flatten(Tail(seqs))

commonSections == <<"Game Overview", "Core Pillars", "Features", "Technical Requirements">>

\* checkType is <<>> when the parameter was omitted (default 'all')
validateGDD(frontmatter, content, checkType) ==
  LET all == checkType = <<>> \/ checkType = <<"all">>
      doFrontmatter == all \/ checkType = <<"frontmatter">>
      doReferences == all \/ checkType = <<"references">>
      doContent == all \/ checkType = <<"content">>
      milestonesMissing == ~Has(frontmatter, "milestones")
      featuresMissing == ~Has(frontmatter, "features")
      tasksMissing == \E i \in DOMAIN frontmatter.features :
                        ~Has(frontmatter.features[i], "tasks")
      schemaErrors == IF GDDFrontmatterSchema(frontmatter) THEN <<>>
                      ELSE <<[msg |-> "Frontmatter validation failed", id |-> <<>>]>>
      frontmatterErrors ==
        schemaErrors
        \o DuplicateErrors(frontmatter.milestones, "Duplicate milestone ID")
        \o DuplicateErrors(frontmatter.features, "Duplicate feature ID")
      danglingErrors ==
        Map(Filter(frontmatter.features,
                   LAMBDA feature : ~\E i \in DOMAIN frontmatter.milestones :
                      Field(frontmatter.milestones[i], "id") = Field(feature, "milestone")),
            LAMBDA feature : [msg |-> "references non-existent milestone",
                              id |-> Field(feature, "id")])
      referenceErrors ==
        danglingErrors
        \o Flatten(Map(frontmatter.features,
                       LAMBDA feature : DuplicateErrors(feature.tasks, "Duplicate task ID")))
      sections == parseMarkdownSections(content)
      contentWarnings ==
        (IF Trim(content) = <<Blank>> THEN <<"Document content is empty">> ELSE <<>>)
        \o Map(Filter(commonSections, LAMBDA expected : ~MapHas(sections, expected)),
               LAMBDA expected : expected)
  IN IF doFrontmatter /\ (milestonesMissing \/ featuresMissing) THEN Throw("TypeError")
     ELSE IF doReferences /\ (milestonesMissing \/ featuresMissing) THEN Throw("TypeError")
     ELSE IF doReferences /\ tasksMissing THEN Throw("TypeError")
     ELSE LET errors == (IF doFrontmatter THEN frontmatterErrors ELSE <<>>)
                        \o (IF doReferences THEN referenceErrors ELSE <<>>)
              warnings == IF doContent THEN contentWarnings ELSE <<>>
          IN Return([valid |-> errors = <<>>, errors |-> errors, warnings |-> warnings])

(***************************************************************************)
(* Summary export                                                          *)
(***************************************************************************)
\* task.estimate || 0
EstimateOf(task) == IF Has(task, "estimate") THEN task.estimate ELSE 0

RECURSIVE SumEstimates(_)
SumEstimates(tasks) ==
  IF tasks = <<>> THEN 0 ELSE EstimateOf(Head(tasks)) + SumEstimates(Tail(tasks))

\* total / count without the || 0: 0/0 stays NaN (denominator 0)
Average_NaN(total, count) == [num |-> total, den |-> count]

\* total / count || 0 as a fraction: NaN (0/0) and 0 both become 0
Average(total, count) ==
  IF count = 0 \/ total = 0 THEN [num |-> 0, den |-> 1]
  ELSE [num |-> total, den |-> count]

\* Number.prototype.toFixed(1), in tenths; NaN.toFixed(1) is "NaN"
ToFixed1(q) ==
  IF q.den = 0 THEN "NaN" ELSE (20 * q.num + q.den) \div (2 * q.den)

CountPriority(features, p) ==
  Len(Filter(features, LAMBDA f : Field(f, "priority") = <<p>>))

\* format and include are <<>> when omitted
exportSummary(frontmatter, format, include) ==
  LET allTasks == queryTasks(frontmatter, <<>>, <<>>)
      wanted == IF include = <<>> THEN <<"milestones", "features", "tasks">>
                ELSE include[1]
      Wants(key) == \E i \in DOMAIN wanted : wanted[i] = key
      total == SumEstimates(allTasks.val)
      progress == [totalFeatures |-> Len(frontmatter.features),
                   totalTasks |-> Len(allTasks.val),
                   priorityBreakdown |->
                     [P1 |-> CountPriority(frontmatter.features, "P1"),
                      P2 |-> CountPriority(frontmatter.features, "P2"),
                      P3 |-> CountPriority(frontmatter.features, "P3")]]
      estimates == [totalEstimate |-> total,
                    averageTaskEstimate |-> Average(total, Len(allTasks.val))]
      ValueOf(key) ==
        IF key = "milestones" THEN frontmatter.milestones
        ELSE IF key = "features" THEN frontmatter.features
        ELSE IF key = "tasks" THEN allTasks.val
        ELSE IF key = "progress" THEN progress
        ELSE estimates
      \* JSON.stringify drops a key whose value is undefined
      json == Map(Filter(wanted, LAMBDA key :
                           key # "milestones" \/ Has(frontmatter, "milestones")),
                  LAMBDA key : [key |-> key, value |-> ValueOf(key)])
      csv == Map(frontmatter.features, LAMBDA feature :
               [id |-> Field(feature, "id"), title |-> Field(feature, "title"),
                milestone |-> Field(feature, "milestone"),
                priority |-> Field(feature, "priority"),
                taskCount |-> Len(feature.tasks),
                totalEstimate |-> SumEstimates(feature.tasks)])
      markdown ==
        (IF Wants("milestones")
         THEN <<[heading |-> "Milestones",
                 rows |-> Map(frontmatter.milestones, LAMBDA milestone :
                   [id |-> Field(milestone, "id"),
                    features |-> Len(Filter(frontmatter.features, LAMBDA f :
                       Field(f, "milestone") = Field(milestone, "id")))])]>>
         ELSE <<>>)
        \o (IF Wants("features")
            THEN <<[heading |-> "Features",
                    rows |-> Map(frontmatter.features, LAMBDA feature :
                      [id |-> Field(feature, "id"),
                       milestone |-> Field(feature, "milestone"),
                       priority |-> Field(feature, "priority"),
                       tasks |-> Len(feature.tasks),
                       estimate |-> SumEstimates(feature.tasks)])]>>
            ELSE <<>>)
        \o (IF Wants("progress")
            THEN <<[heading |-> "Progress Summary", rows |-> <<progress>>]>>
            ELSE <<>>)
        \o (IF Wants("estimates")
            THEN <<[heading |-> "Estimates",
                    rows |-> <<[totalEstimate |-> total,
                                averageTenths |-> ToFixed1(estimates.averageTaskEstimate)]>>]>>
            ELSE <<>>)
  IN IF ~allTasks.ok THEN allTasks
     ELSE IF format = <<"json">> THEN Return([format |-> "json", text |-> json])
     ELSE IF format = <<"csv">> THEN Return([format |-> "csv", text |-> csv])
     ELSE IF Wants("milestones") /\ ~Has(frontmatter, "milestones") THEN Throw("TypeError")
     ELSE Return([format |-> "markdown", text |-> markdown])

\* feature and task counts of the response (the catch turns a failure into
\* undefined); file size and modification time are not modelled
getFileMetadata(frontmatter) ==
  LET allTasks == queryTasks(frontmatter, <<>>, <<>>)
  IN IF ~allTasks.ok THEN Undefined
     ELSE [featureCount |-> Len(frontmatter.features),
           taskCount |-> Len(allTasks.val)]

(***************************************************************************)
(* manageGDD                                                               *)
(*                                                                         *)
(* params is the validated parameter object: a function whose DOMAIN holds *)
(* "action" and the optional parameters that were supplied.                *)
(***************************************************************************)
\* one case of the switch: the result, the document to keep and whether to
\* write it
Step(result, updatedGDD, shouldWriteFile) ==
  [ok |-> TRUE, result |-> result, updatedGDD |-> updatedGDD,
   shouldWriteFile |-> shouldWriteFile]

\* a copy that takes the new frontmatter and starts from an empty body
WithFrontmatter_NoContent(gdd, frontmatter) ==
  [frontmatter |-> frontmatter, content |-> <<Blank>>]

\* { ...gdd, frontmatter }
WithFrontmatter(gdd, frontmatter) == Spread(gdd, [frontmatter |-> frontmatter])

caseRead(gdd, params) == Step(gdd, gdd, FALSE)

caseUpdateFrontmatter(gdd, params) ==
  IF ~Has(params, "updates")
  THEN Throw("Updates parameter is required for update_frontmatter action")
  ELSE LET updatedGDD == WithFrontmatter(gdd, Spread(OwnProperties(gdd.frontmatter), params.updates))
       IN Step(updatedGDD.frontmatter, updatedGDD, TRUE)

caseUpdateContent(gdd, params) ==
  IF ~Has(params, "section") \/ ~Has(params, "content")
     \/ params.section = "" \/ params.content = <<Blank>>
  THEN Throw("Section and content parameters are required for update_content action")
  ELSE Step([section |-> params.section, updated |-> TRUE],
            Spread(gdd, [content |-> updateContentSection(gdd.content, params.section,
                                       params.content, Field(params, "operation"))]),
            TRUE)

\* add_feature that puts the new feature first: [feature, ...features]
caseAddFeature_Prepend(gdd, params) ==
  IF ~Has(params, "feature")
  THEN Throw("Feature parameter is required for add_feature action")
  ELSE LET added == addFeature(gdd.frontmatter, params.feature)
       IN IF ~added.ok THEN added
          ELSE Step(params.feature,
                    WithFrontmatter(gdd, Spread(gdd.frontmatter,
                      [features |-> <<params.feature>> \o gdd.frontmatter.features])),
                    TRUE)

caseAddFeature(gdd, params) ==
  IF ~Has(params, "feature")
  THEN Throw("Feature parameter is required for add_feature action")
  ELSE LET added == addFeature(gdd.frontmatter, params.feature)
       IN IF ~added.ok THEN added
          ELSE Step(params.feature, WithFrontmatter(gdd, added.val), TRUE)

caseUpdateFeature(gdd, params) ==
  IF ~TruthyStr(Field(params, "feature_id")) \/ ~Has(params, "updates")
  THEN Throw("Feature ID and updates parameters are required for update_feature action")
  ELSE LET updated == updateFeature(gdd.frontmatter, params.feature_id, params.updates)
       IN IF ~updated.ok THEN updated
          ELSE LET found == FindIndexById(updated.val.features, params.feature_id)
               IN Step(IF found = 0 THEN Undefined ELSE updated.val.features[found],
                       WithFrontmatter(gdd, updated.val), TRUE)

caseAddTask(gdd, params) ==
  IF ~TruthyStr(Field(params, "feature_id")) \/ ~Has(params, "task")
  THEN Throw("Feature ID and task parameters are required for add_task action")
  ELSE LET added == addTaskToFeature(gdd.frontmatter, params.feature_id, params.task)
       IN IF ~added.ok THEN added
          ELSE Step(params.task, WithFrontmatter(gdd, added.val), TRUE)

caseUpdateTask(gdd, params) ==
  IF ~TruthyStr(Field(params, "task_id")) \/ ~Has(params, "updates")
  THEN Throw("Task ID and updates parameters are required for update_task action")
  ELSE LET updated == updateTask(gdd.frontmatter, params.task_id, params.updates)
       IN IF ~updated.ok THEN updated
          ELSE LET found == queryTasks(updated.val, <<>>, Field(params, "task_id"))
               IN IF ~found.ok THEN found
                  ELSE Step(IF found.val = <<>> THEN Undefined ELSE found.val[1],
                            WithFrontmatter(gdd, updated.val), TRUE)

caseQueryMilestones(gdd, params) ==
  LET found == queryMilestones(gdd.frontmatter, Field(params, "milestone_id"),
                               Field(params, "include_features"))
  IN IF ~found.ok THEN found ELSE Step(found.val, gdd, FALSE)

caseQueryFeatures(gdd, params) ==
  LET found == queryFeatures(gdd.frontmatter,
                 [milestone |-> Field(params, "milestone"),
                  priority |-> Field(params, "priority"),
                  featureId |-> Field(params, "feature_id"),
                  includeTasks |-> Field(params, "include_tasks")])
  IN IF ~found.ok THEN found ELSE Step(found.val, gdd, FALSE)

caseQueryTasks(gdd, params) ==
  LET found == queryTasks(gdd.frontmatter, Field(params, "feature_id"),
                          Field(params, "task_id"))
  IN IF ~found.ok THEN found ELSE Step(found.val, gdd, FALSE)

caseValidateStructure(gdd, params) ==
  LET validation == validateGDD(gdd.frontmatter, gdd.content, Field(params, "check_type"))
  IN IF ~validation.ok THEN validation ELSE Step(validation.val, gdd, FALSE)

caseExportSummary(gdd, params) ==
  LET summary == exportSummary(gdd.frontmatter, Field(params, "format"),
                               Field(params, "include"))
  IN IF ~summary.ok THEN summary ELSE Step(summary.val, gdd, FALSE)

Switch(gdd, params) ==
  CASE params.action = "read" -> caseRead(gdd, params)
    [] params.action = "update_frontmatter" -> caseUpdateFrontmatter(gdd, params)
    [] params.action = "update_content" -> caseUpdateContent(gdd, params)
    [] params.action = "add_feature" -> caseAddFeature(gdd, params)
    [] params.action = "update_feature" -> caseUpdateFeature(gdd, params)
    [] params.action = "add_task" -> caseAddTask(gdd, params)
    [] params.action = "update_task" -> caseUpdateTask(gdd, params)
    [] params.action = "query_milestones" -> caseQueryMilestones(gdd, params)
    [] params.action = "query_features" -> caseQueryFeatures(gdd, params)
    [] params.action = "query_tasks" -> caseQueryTasks(gdd, params)
    [] params.action = "validate_structure" -> caseValidateStructure(gdd, params)
    [] params.action = "export_summary" -> caseExportSummary(gdd, params)

\* action === 'read' || action.startsWith('query') || ...
ReadOnlyAction(action) ==
  action \in {"read", "query_milestones", "query_features", "query_tasks",
              "validate_structure", "export_summary"}

\* an error envelope that drops the message
Failure_NoMessage(message) == [success |-> FALSE]

Failure(message) == [success |-> FALSE, error |-> message]

\* GDDManagerSchema.parse: the enumerated parameters hold one of their literals
\* (the other parameters of the model are of their declared type)
GDDManagerSchema(params) ==
  /\ Field(params, "priority") \in {<<>>, <<"P1">>, <<"P2">>, <<"P3">>}
  /\ Field(params, "operation") \in {<<>>, <<"replace">>, <<"append">>, <<"prepend">>}
  /\ Field(params, "check_type")
       \in {<<>>, <<"all">>, <<"frontmatter">>, <<"content">>, <<"references">>}
  /\ Field(params, "format") \in {<<>>, <<"markdown">>, <<"json">>, <<"csv">>}

\* the response and the stored file after the call
Outcome(response, stored) == [response |-> response, stored |-> stored]

\* a tail that saves in a finally block, so also when the action threw
Finish_SaveOnError(stored, step) ==
  IF ~step.ok
  THEN Outcome(Failure(step.err),
               serializeGDD(parseFrontmatter(stored).val))
  ELSE Outcome([success |-> TRUE, data |-> step.result,
                metadata |-> getFileMetadata(step.updatedGDD.frontmatter)],
               IF step.shouldWriteFile THEN serializeGDD(step.updatedGDD)
               ELSE stored)

\* a tail that writes after every successful action, shouldWriteFile or not
Finish_AlwaysSave(stored, step) ==
  IF ~step.ok THEN Outcome(Failure(step.err), stored)
  ELSE Outcome([success |-> TRUE, data |-> step.result,
                metadata |-> getFileMetadata(step.updatedGDD.frontmatter)],
               serializeGDD(step.updatedGDD))

\* the tail of manageGDD: the write, the metadata and the response envelope
Finish(stored, step) ==
  IF ~step.ok THEN Outcome(Failure(step.err), stored)
  ELSE Outcome([success |-> TRUE, data |-> step.result,
                metadata |-> getFileMetadata(step.updatedGDD.frontmatter)],
               IF step.shouldWriteFile THEN serializeGDD(step.updatedGDD)
               ELSE stored)

\* the body of manageGDD once the file was read: parsed is parseFrontmatter's
\* result
Dispatch(stored, params, parsed) ==
  IF ~parsed.ok THEN Outcome(Failure("Failed to parse GDD file"), stored)
  ELSE Finish(stored, Switch(parsed.val, params))

manageGDD(stored, params) ==
  IF ~GDDManagerSchema(params) THEN Outcome(Failure("ZodError"), stored)
  ELSE IF ~stored.exists
  THEN Outcome(Failure(IF ReadOnlyAction(params.action) THEN "File not found"
                       ELSE "Failed to parse GDD file"), stored)
  ELSE Dispatch(stored, params, parseFrontmatter(stored))

\* what a rejected fs.writeFile may leave in storage: the file as it was, or
\* the file opened for writing and cut short
Truncated == [exists |-> TRUE, fenced |-> FALSE, body |-> <<Blank>>]

WriteFailureLeaves(stored) == {stored, Truncated}

\* a tail whose catch around the write swallows the rejection
FinishWriteFails_Swallowed(stored, step, left) ==
  IF ~step.ok THEN Outcome(Failure(step.err), stored)
  ELSE Outcome([success |-> TRUE, data |-> step.result,
                metadata |-> getFileMetadata(step.updatedGDD.frontmatter)],
               IF step.shouldWriteFile THEN left ELSE stored)

\* the tail of manageGDD when fs.writeFile rejects: the outer catch answers
FinishWriteFails(stored, step, left) ==
  IF ~step.ok THEN Outcome(Failure(step.err), stored)
  ELSE IF step.shouldWriteFile THEN Outcome(Failure("EIO"), left)
  ELSE Outcome([success |-> TRUE, data |-> step.result,
                metadata |-> getFileMetadata(step.updatedGDD.frontmatter)],
               stored)

\* manageGDD on a storage whose writes are rejected
manageGDDWriteFails(stored, params, left) ==
  IF ~GDDManagerSchema(params) \/ ~stored.exists \/ ~parseFrontmatter(stored).ok
  THEN manageGDD(stored, params)
  ELSE FinishWriteFails(stored, Switch(parseFrontmatter(stored).val, params), left)

(***************************************************************************)
(* Inputs: the documents a call may find in storage and the parameter      *)
(* objects the input schema accepts, drawn from small sets                 *)
(***************************************************************************)
Milestone(id) == [id |-> id, title |-> "m"]

Task(id, title) == [id |-> id, title |-> title]
TaskWithEstimate(id, title, estimate) == [id |-> id, title |-> title, estimate |-> estimate]

Feature(id, milestone, priority, tasks) ==
  [id |-> id, title |-> "f", milestone |-> milestone, priority |-> priority,
   acceptance |-> <<>>, tasks |-> tasks]

\* the object without one of its keys
Omit(obj, key) == [k \in (DOMAIN obj) \ {key} |-> obj[k]]

TaskPayloads ==
  {TaskWithEstimate("T1", "x", 5), Task("T1", "y"), Task("T2", "y")}

\* GDDFeatureSchema.partial(): every key is optional
FeaturePayloads ==
  LET whole == Feature("F2", "M1", "P2", <<TaskWithEstimate("T1", "x", 5)>>)
  IN {whole,
      Feature("F1", "M1", "P1", <<>>),
      Feature("F2", "M9", "P2", <<>>),
      Feature("F2", "M1", "P2", <<Task("T1", "y"), TaskWithEstimate("T1", "x", 5)>>)}
     \cup {Omit(whole, key) : key \in {"id", "milestone", "priority", "tasks"}}

\* z.object({}).passthrough(): any keys
FeatureUpdates ==
  {<<>>} \cup {[milestone |-> m] : m \in {"M2", "M9", ""}}
         \cup {[priority |-> "P3"], [id |-> "F2"],
               [tasks |-> <<Task("T2", "y"), Task("T2", "y")>>],
               [milestone |-> "M1", priority |-> "P3"]}

TaskUpdates == {<<>>, [estimate |-> 3], [id |-> "T2"]}

FrontmatterUpdates ==
  {<<>>, [milestones |-> <<Milestone("M2")>>], [engine |-> "unity"]}

Frontmatter(milestones, features) ==
  [project |-> "Game", version |-> [type |-> "string", v |-> "1.0"],
   milestones |-> milestones, features |-> features]

Stored(frontmatter, body) ==
  [exists |-> TRUE, fenced |-> TRUE, yaml |-> yamlDump(frontmatter), body |-> body]

EmptyBody == <<Blank>>
SomeBody == <<Heading(1, "Game Overview"), Blank, Text("intro"), Blank,
              Heading(2, "Features"), Text("list")>>

M12 == <<Milestone("M1"), Milestone("M2")>>

\* well-formed and defective documents
InitFrontmatters ==
  { Frontmatter(<<Milestone("M1")>>, <<>>),
    Frontmatter(M12, <<Feature("F1", "M1", "P1", <<TaskWithEstimate("T1", "x", 5)>>)>>),
    \* a document with a key of its own beside the typed ones
    Spread(Frontmatter(M12, <<Feature("F1", "M2", "P2", <<>>),
                              Feature("F2", "M1", "P1", <<Task("T1", "y")>>)>>),
           [engine |-> "roblox"]),
    Frontmatter(M12, <<Feature("F1", "M1", "P1", <<TaskWithEstimate("T1", "x", 5)>>),
                       Feature("F3", "M1", "P2", <<TaskWithEstimate("T1", "x", 3),
                                                   Task("T2", "y")>>)>>),
    \* duplicate ids, dangling reference
    Frontmatter(<<Milestone("M1"), Milestone("M1")>>, <<>>),
    Frontmatter(M12, <<Feature("F1", "M1", "P1", <<>>), Feature("F1", "M2", "P2", <<>>)>>),
    Frontmatter(M12, <<Feature("F1", "M9", "P1", <<>>)>>),
    Frontmatter(M12, <<Feature("F1", "M1", "P1", <<Task("T1", "y"), Task("T1", "y")>>)>>),
    \* absent keys, out-of-enum priority, wrongly typed version
    Omit(Frontmatter(M12, <<>>), "milestones"),
    Omit(Frontmatter(M12, <<>>), "features"),
    Frontmatter(M12, <<Feature("F1", "M1", "P1", <<Task("T1", "y")>>),
                       Omit(Feature("F3", "M1", "P1", <<>>), "tasks")>>),
    Frontmatter(M12, <<Feature("F1", "M1", "P9", <<>>)>>),
    Spread(Frontmatter(M12, <<>>), [version |-> [type |-> "number", v |-> 1]]) }

\* a missing file, text without frontmatter, undecodable frontmatter, a
\* frontmatter block that decodes to a number, documents
InitFiles ==
  {NoFile,
   [exists |-> TRUE, fenced |-> FALSE, body |-> SomeBody],
   [exists |-> TRUE, fenced |-> TRUE, yaml |-> [kind |-> "invalid"], body |-> SomeBody],
   [exists |-> TRUE, fenced |-> TRUE, yaml |-> [kind |-> "scalar", value |-> 42],
    body |-> SomeBody]}
  \cup {Stored(frontmatter, SomeBody) : frontmatter \in InitFrontmatters}
  \cup {Stored(Frontmatter(<<Milestone("M1")>>, <<>>), EmptyBody)}

\* parameter objects per action; a key left out of the DOMAIN was not supplied
WithOptional(base, key, values) ==
  {base} \cup {Spread(base, [k \in {key} |-> v]) : v \in values}

Params(action) == [action |-> action]

\* the second object fails the input schema (priority outside its enum)
ReadParams == {Params("read"), Spread(Params("read"), [priority |-> "P9"])}

UpdateFrontmatterParams ==
  WithOptional(Params("update_frontmatter"), "updates", FrontmatterUpdates)

UpdateContentParams ==
  {Params("update_content"),
   Spread(Params("update_content"), [section |-> "Features"]),
   Spread(Params("update_content"), [section |-> "Features", content |-> <<Text("new")>>]),
   Spread(Params("update_content"),
          [section |-> "Notes", content |-> <<Text("new")>>, operation |-> "append"])}

AddFeatureParams == WithOptional(Params("add_feature"), "feature", FeaturePayloads)

UpdateFeatureParams ==
  UNION {WithOptional(base, "updates", FeatureUpdates) :
         base \in WithOptional(Params("update_feature"), "feature_id", {"F1", "F2"})}

AddTaskParams ==
  UNION {WithOptional(base, "task", TaskPayloads) :
         base \in WithOptional(Params("add_task"), "feature_id", {"F1", "F2"})}

UpdateTaskParams ==
  UNION {WithOptional(base, "updates", TaskUpdates) :
         base \in WithOptional(Params("update_task"), "task_id", {"T1", "T2"})}

QueryMilestonesParams ==
  UNION {WithOptional(base, "include_features", {TRUE}) :
         base \in WithOptional(Params("query_milestones"), "milestone_id", {"M1"})}

QueryFeaturesParams ==
  UNION {WithOptional(b3, "include_tasks", {TRUE, FALSE}) :
         b3 \in UNION {WithOptional(b2, "feature_id", {"F1"}) :
                b2 \in UNION {WithOptional(b1, "priority", {"P1"}) :
                       b1 \in WithOptional(Params("query_features"), "milestone", {"M1", ""})}}}

QueryTasksParams ==
  UNION {WithOptional(base, "task_id", {"T1"}) :
         base \in WithOptional(Params("query_tasks"), "feature_id", {"F1", "F2"})}

ValidateStructureParams ==
  WithOptional(Params("validate_structure"), "check_type",
               {"all", "frontmatter", "content", "references"})

ExportSummaryParams ==
  UNION {WithOptional(base, "include", {<<"estimates">>, <<"features", "progress">>}) :
         base \in WithOptional(Params("export_summary"), "format",
                               {"markdown", "json", "csv"})}

(***************************************************************************)
(* State machine: the stored file, and the call in progress.  A caller     *)
(* issues one call and takes its response before issuing the next:         *)
(* call.action = "none" while no response is outstanding.                  *)
(***************************************************************************)
Idle == call.action = "none"

\* callers whose calls overlap in time, and where each of them is in its call
Callers == {"a", "b"}

NoCalls == [c \in Callers |-> [pc |-> "idle"]]

Init ==
  /\ file \in InitFiles
  /\ prevFile = file
  /\ call = Params("none")
  /\ resp = Failure("none")
  /\ writes = 0
  /\ inflight = NoCalls

Wrote(params, response) == response.success /\ ~ReadOnlyAction(params.action)

\* the state after a call with the given outcome
Record(params, outcome) ==
  /\ Wrote(params, outcome.response) => writes < MaxWrites
  /\ file' = outcome.stored
  /\ prevFile' = file
  /\ call' = params
  /\ resp' = outcome.response
  /\ writes' = IF Wrote(params, outcome.response) THEN writes + 1 ELSE writes
  /\ UNCHANGED inflight

\* one manageGDD call, from load to save
Call(params) == Idle /\ Record(params, manageGDD(file, params))

Read ==
  \E params \in ReadParams : params.action = "read" /\ Call(params)
UpdateFrontmatter ==
  \E params \in UpdateFrontmatterParams : params.action = "update_frontmatter" /\ Call(params)
UpdateContent ==
  \E params \in UpdateContentParams : params.action = "update_content" /\ Call(params)
AddFeature ==
  \E params \in AddFeatureParams : params.action = "add_feature" /\ Call(params)
UpdateFeature ==
  \E params \in UpdateFeatureParams : params.action = "update_feature" /\ Call(params)
AddTask ==
  \E params \in AddTaskParams : params.action = "add_task" /\ Call(params)
UpdateTask ==
  \E params \in UpdateTaskParams : params.action = "update_task" /\ Call(params)
QueryMilestones ==
  \E params \in QueryMilestonesParams : params.action = "query_milestones" /\ Call(params)
QueryFeatures ==
  \E params \in QueryFeaturesParams : params.action = "query_features" /\ Call(params)
QueryTasks ==
  \E params \in QueryTasksParams : params.action = "query_tasks" /\ Call(params)
ValidateStructure ==
  \E params \in ValidateStructureParams : params.action = "validate_structure" /\ Call(params)
ExportSummary ==
  \E params \in ExportSummaryParams : params.action = "export_summary" /\ Call(params)

\* the caller takes the response (await manageGDD(...)) and may call again
Deliver ==
  /\ ~Idle
  /\ call' = Params("none")
  /\ resp' = Failure("none")
  /\ prevFile' = file
  /\ UNCHANGED <<file, writes, inflight>>

Next ==
  \/ Read \/ UpdateFrontmatter \/ UpdateContent
  \/ AddFeature \/ UpdateFeature \/ AddTask \/ UpdateTask
  \/ QueryMilestones \/ QueryFeatures \/ QueryTasks
  \/ ValidateStructure \/ ExportSummary
  \/ Deliver

Spec == Init /\ [][Next]_vars

(***************************************************************************)
(* The same callers on a storage whose writes may be rejected              *)
(***************************************************************************)
MutatingParams ==
  UpdateFrontmatterParams \cup UpdateContentParams \cup AddFeatureParams
    \cup UpdateFeatureParams \cup AddTaskParams \cup UpdateTaskParams

WriteFails ==
  \E params \in MutatingParams :
    \E left \in WriteFailureLeaves(file) :
      Idle /\ Record(params, manageGDDWriteFails(file, params, left))

NextIO == Next \/ WriteFails

SpecIO == Init /\ [][NextIO]_vars

(***************************************************************************)
(* Edits of the body: one frontmatter, bodies with text before the first   *)
(* heading, headings of several levels, one heading text at two levels,    *)
(* leading blank lines and a commented frontmatter block                   *)
(***************************************************************************)
PreambleBody ==
  <<Text("preamble"), Blank, Heading(1, "Overview"), Blank, Text("intro"), Blank,
    Heading(2, "Features"), Text("list"), Heading(3, "Details"), Text("d")>>

TwoLevelBody ==
  <<Heading(1, "Features"), Text("a"), Heading(2, "Features"), Text("b")>>

FlatBody ==
  <<Heading(1, "Overview"), Blank, Text("intro"), Blank,
    Heading(1, "Features"), Blank, Text("list")>>

ContentFiles ==
  {Stored(Frontmatter(<<Milestone("M1")>>, <<>>), body) :
     body \in {EmptyBody, SomeBody, PreambleBody, TwoLevelBody, FlatBody}}
  \cup {[exists |-> TRUE, fenced |-> TRUE,
         yaml |-> [kind |-> "map", map |-> Frontmatter(M12, <<>>), comments |-> TRUE],
         body |-> <<Blank, Blank>> \o FlatBody]}

\* plain text, and text that holds a heading line of its own
ContentTexts ==
  {<<Text("new")>>, <<Text("more")>>, <<Text("x"), Heading(2, "Sub"), Text("y")>>}

ContentParams ==
  UNION {WithOptional(Spread(Params("update_content"),
                             [section |-> section, content |-> content]),
                      "operation", {"replace", "append", "prepend"}) :
         section \in {"Features", "Notes"}, content \in ContentTexts}

ResaveParams == {Spread(Params("update_frontmatter"), [updates |-> <<>>])}

InitContent ==
  /\ file \in ContentFiles
  /\ prevFile = file
  /\ call = Params("none")
  /\ resp = Failure("none")
  /\ writes = 0
  /\ inflight = NoCalls

EditSection ==
  \E params \in ContentParams : params.action = "update_content" /\ Call(params)

Resave ==
  \E params \in ResaveParams : params.action = "update_frontmatter" /\ Call(params)

NextContent == EditSection \/ Resave \/ Read \/ Deliver

SpecContent == InitContent /\ [][NextContent]_vars

(***************************************************************************)
(* Two calls on the same file that overlap.  manageGDD awaits fs.readFile  *)
(* and fs.writeFile, and fs/promises writeFile itself opens the file with  *)
(* flag 'w' (which empties it) and then writes the text from offset 0, so  *)
(* a call has three steps another call can come between: the load, the     *)
(* open and the write.  A write over text left by the other caller         *)
(* replaces the bytes it covers: when the written text is a prefix of what *)
(* the file holds, the file keeps what it holds.  (When it is shorter      *)
(* without being a prefix the file keeps a tail of the other text; the     *)
(* texts of the model cannot tell lengths in that case and the outcome is  *)
(* left out.)                                                              *)
(***************************************************************************)
RaceDocument ==
  serializeGDD([frontmatter |->
                  Frontmatter(M12, <<Feature("F1", "M1", "P1",
                                             <<TaskWithEstimate("T1", "x", 5)>>)>>),
                content |-> FlatBody])

RaceParams ==
  ResaveParams
  \cup {Spread(Params("update_content"), [section |-> "Notes", content |-> content]) :
          content \in {<<Text("new")>>, <<Text("new"), Text("more")>>}}
  \cup {Spread(Params("update_task"), [task_id |-> "T1", updates |-> [estimate |-> 3]])}

\* text is the beginning of what the file holds
IsPrefix(text, held) ==
  /\ held.exists /\ held.fenced
  /\ held.yaml = text.yaml
  /\ Len(text.body) <= Len(held.body)
  /\ SubSeq(held.body, 1, Len(text.body)) = text.body

\* the file after text was written from offset 0
Overlay(held, text) == IF IsPrefix(text, held) THEN held ELSE text

Other(c) == CHOOSE d \in Callers : d # c

Finished == {c \in Callers : inflight[c].pc = "done"}

InitRace ==
  /\ file = RaceDocument
  /\ prevFile = file
  /\ call = Params("none")
  /\ resp = Failure("none")
  /\ writes = 0
  /\ inflight = NoCalls

\* fs.readFile resolves: the caller holds the text it will work on
LoadDocument(c) ==
  /\ inflight[c].pc = "idle"
  /\ \E params \in RaceParams :
       inflight' = [inflight EXCEPT ![c] = [pc |-> "loaded", params |-> params,
                                           loaded |-> file]]
  /\ UNCHANGED <<file, prevFile, call, resp, writes>>

\* the switch ran on the loaded copy; fs.writeFile opens the file, or the call
\* returns without writing
OpenForWrite(c) ==
  /\ inflight[c].pc = "loaded"
  /\ IF Wrote(inflight[c].params,
              manageGDD(inflight[c].loaded, inflight[c].params).response)
     THEN /\ file' = Truncated
          /\ inflight' = [inflight EXCEPT ![c] =
               [pc |-> "opened", params |-> inflight[c].params,
                bothLoaded |-> inflight[Other(c)].pc # "idle",
                text |-> manageGDD(inflight[c].loaded, inflight[c].params).stored,
                response |-> manageGDD(inflight[c].loaded, inflight[c].params).response]]
     ELSE /\ inflight' = [inflight EXCEPT ![c] =
               [pc |-> "done", params |-> inflight[c].params,
                bothLoaded |-> inflight[Other(c)].pc # "idle",
                text |-> file, order |-> 0,
                response |-> manageGDD(inflight[c].loaded, inflight[c].params).response]]
          /\ UNCHANGED file
  /\ UNCHANGED <<prevFile, call, resp, writes>>

\* the text is written and the call returns its response
WriteText(c) ==
  /\ inflight[c].pc = "opened"
  /\ file' = Overlay(file, inflight[c].text)
  /\ inflight' = [inflight EXCEPT ![c] =
       [pc |-> "done", params |-> inflight[c].params,
        bothLoaded |-> inflight[c].bothLoaded,
        text |-> inflight[c].text, order |-> Cardinality(Finished) + 1,
        response |-> inflight[c].response]]
  /\ UNCHANGED <<prevFile, call, resp, writes>>

Load == \E c \in Callers : LoadDocument(c)
Open == \E c \in Callers : OpenForWrite(c)
Write == \E c \in Callers : WriteText(c)

NextRace == Load \/ Open \/ Write

SpecRace == InitRace /\ [][NextRace]_vars

(***************************************************************************)
(* Properties                                                              *)
(***************************************************************************)
\* the stored text parses into a frontmatter mapping and a body
Parses(stored) == stored.exists /\ parseFrontmatter(stored).ok

FrontmatterOf(stored) == parseFrontmatter(stored).val.frontmatter

\* the lists of a stored document; empty when the key or the document is absent
FeaturesOf(stored) ==
  IF Parses(stored) /\ Has(FrontmatterOf(stored), "features")
  THEN FrontmatterOf(stored).features ELSE <<>>

MilestonesOf(stored) ==
  IF Parses(stored) /\ Has(FrontmatterOf(stored), "milestones")
  THEN FrontmatterOf(stored).milestones ELSE <<>>

\* every feature's milestone is the id of an existing milestone
ReferencesResolve(stored) ==
  \A i \in DOMAIN FeaturesOf(stored) :
    /\ Has(FeaturesOf(stored)[i], "milestone")
    /\ \E j \in DOMAIN MilestonesOf(stored) :
         Field(MilestonesOf(stored)[j], "id") = <<FeaturesOf(stored)[i].milestone>>

\* the response a query_features call without parameters would get now
QueryAllFeatures(stored) == manageGDD(stored, Params("query_features")).response

\* C1: starting from a document whose features all reference existing
\* milestones, a successful add_feature or update_feature leaves every feature
\* referencing an existing milestone, and a failed one leaves the stored
\* document unchanged.
C1_ReferenceIntegrity ==
  (/\ call.action \in {"add_feature", "update_feature"}
   /\ Parses(prevFile) /\ ReferencesResolve(prevFile))
  => IF resp.success THEN ReferencesResolve(file) ELSE file = prevFile

\* the errors raised by an action's own checks and by loading the document
OwnCheckErrors ==
  {"Updates parameter is required for update_frontmatter action",
   "Section and content parameters are required for update_content action",
   "Feature parameter is required for add_feature action",
   "Feature ID and updates parameters are required for update_feature action",
   "Feature ID and task parameters are required for add_task action",
   "Task ID and updates parameters are required for update_task action",
   "Feature not found", "Task not found", "Feature already exists",
   "Task already exists in feature", "Duplicate task ID",
   "Referenced milestone does not exist", "Failed to parse GDD file"}

\* C2: a call that fails on one of the action's own checks performs no write:
\* the stored document is the one stored before the call.
C2_FailedCheckWritesNothing ==
  (~Idle /\ ~resp.success /\ resp.error \in OwnCheckErrors) => file = prevFile

C2_Witness ==
  /\ call.action = "update_task" /\ ~resp.success /\ resp.error = "Task not found"
  /\ Parses(prevFile) /\ FeaturesOf(prevFile) # <<>>
  /\ file = prevFile

\* the three conditions of C3 on the supplied feature
DuplicatesFeatureId(stored, feature) ==
  \E i \in DOMAIN FeaturesOf(stored) :
    Field(FeaturesOf(stored)[i], "id") = Field(feature, "id")

DanglingMilestone(stored, feature) ==
  ~\E j \in DOMAIN MilestonesOf(stored) :
     Field(MilestonesOf(stored)[j], "id") = Field(feature, "milestone")

RepeatsTaskId(feature) ==
  Has(feature, "tasks") /\ Cardinality({feature.tasks[i].id : i \in DOMAIN feature.tasks})
                             < Len(feature.tasks)

\* C3: add_feature fails when the feature's id is already used, when its
\* milestone names no milestone, or when two of its tasks share an id; the
\* feature list is then unchanged and query_features returns what it returned
\* before.
C3_AddFeatureRejects ==
  (/\ call.action = "add_feature" /\ Has(call, "feature")
   /\ \/ DuplicatesFeatureId(prevFile, call.feature)
      \/ DanglingMilestone(prevFile, call.feature)
      \/ RepeatsTaskId(call.feature))
  => /\ ~resp.success
     /\ FeaturesOf(file) = FeaturesOf(prevFile)
     /\ file = prevFile
     /\ QueryAllFeatures(file) = QueryAllFeatures(prevFile)

C3_Witness ==
  /\ call.action = "add_feature" /\ Has(call, "feature")
  /\ Parses(prevFile)
  /\ ~DuplicatesFeatureId(prevFile, call.feature)
  /\ ~DanglingMilestone(prevFile, call.feature)
  /\ RepeatsTaskId(call.feature)
  /\ ~resp.success
  /\ QueryAllFeatures(file).success

\* C4: a successful add_feature(f) stores the previous feature list with f
\* appended, and a following query_features without filters returns those
\* features in that order (with their tasks when include_tasks is set, with an
\* empty task list otherwise).
C4_AddFeatureAppends ==
  (call.action = "add_feature" /\ resp.success)
  => /\ FeaturesOf(file) = Append(FeaturesOf(prevFile), call.feature)
     /\ manageGDD(file, [action |-> "query_features", include_tasks |-> TRUE]).response.data
          = Append(FeaturesOf(prevFile), call.feature)
     /\ QueryAllFeatures(file).data
          = [i \in 1..(Len(FeaturesOf(prevFile)) + 1) |->
               Spread(Append(FeaturesOf(prevFile), call.feature)[i], [tasks |-> <<>>])]

C4_Witness ==
  /\ call.action = "add_feature" /\ resp.success
  /\ Len(FeaturesOf(prevFile)) >= 1
  /\ Len(FeaturesOf(file)) = Len(FeaturesOf(prevFile)) + 1
  /\ call.feature.tasks # <<>>

\* the document has its two lists and every feature has a task list
\* (the shape the GDDFrontmatter interface declares)
TypedDocument(stored) ==
  /\ Parses(stored)
  /\ Has(FrontmatterOf(stored), "milestones")
  /\ Has(FrontmatterOf(stored), "features")
  /\ \A i \in DOMAIN FeaturesOf(stored) : Has(FeaturesOf(stored)[i], "tasks")

\* indices of the elements of a list that carry the id
IndicesWithId(arr, id) == {i \in DOMAIN arr : Field(arr[i], "id") = <<id>>}

Least(indices) == CHOOSE i \in indices : \A j \in indices : i <= j

\* C5: add_task fails, leaving the task list unchanged, when no feature has
\* the id or when that feature already holds a task with the task's id;
\* otherwise the task is appended to that feature's task list and nothing else
\* changes.  A task id used in another feature does not make the call fail.
C5_AddTask ==
  (/\ call.action = "add_task" /\ Has(call, "task")
   /\ TruthyStr(Field(call, "feature_id"))
   /\ TypedDocument(prevFile))
  => LET features == FeaturesOf(prevFile)
         targets == IndicesWithId(features, call.feature_id)
     IN IF targets = {}
           \/ IndicesWithId(features[Least(targets)].tasks, call.task.id) # {}
        THEN ~resp.success /\ file = prevFile
        ELSE /\ resp.success
             /\ FrontmatterOf(file) =
                  [FrontmatterOf(prevFile) EXCEPT
                     !.features[Least(targets)].tasks = Append(@, call.task)]

C5_Witness ==
  /\ call.action = "add_task" /\ resp.success
  /\ TypedDocument(prevFile)
  /\ \E k \in DOMAIN FeaturesOf(prevFile) :
       /\ Field(FeaturesOf(prevFile)[k], "id") # <<call.feature_id>>
       /\ IndicesWithId(FeaturesOf(prevFile)[k].tasks, call.task.id) # {}
  /\ \E k \in DOMAIN FeaturesOf(file) :
       /\ Field(FeaturesOf(file)[k], "id") = <<call.feature_id>>
       /\ Len(FeaturesOf(file)[k].tasks) >= 2
       /\ FeaturesOf(file)[k].tasks[Len(FeaturesOf(file)[k].tasks)] = call.task

\* C6: update_task changes exactly the first task with the id, scanning
\* features in document order and tasks in list order; every other task, a
\* task with the same id in a later feature included, and everything else in
\* the frontmatter is unchanged.  When no task has the id the call fails and
\* nothing is written.
C6_UpdateTaskFirstMatch ==
  (/\ call.action = "update_task" /\ Has(call, "updates")
   /\ TruthyStr(Field(call, "task_id"))
   /\ TypedDocument(prevFile))
  => LET features == FeaturesOf(prevFile)
         holders == {i \in DOMAIN features :
                       IndicesWithId(features[i].tasks, call.task_id) # {}}
     IN IF holders = {} THEN ~resp.success /\ file = prevFile
        ELSE LET i == Least(holders)
                 j == Least(IndicesWithId(features[i].tasks, call.task_id))
             IN /\ resp.success
                /\ FrontmatterOf(file) =
                     [FrontmatterOf(prevFile) EXCEPT
                        !.features[i].tasks[j] = Spread(@, call.updates)]

C6_Witness ==
  /\ call.action = "update_task" /\ resp.success
  /\ TypedDocument(prevFile)
  /\ Cardinality({i \in DOMAIN FeaturesOf(prevFile) :
        IndicesWithId(FeaturesOf(prevFile)[i].tasks, call.task_id) # {}}) >= 2
  /\ FeaturesOf(file) # FeaturesOf(prevFile)

\* C7: update_feature fails when no feature has the id.  Otherwise it
\* succeeds when no milestone is supplied, and whenever it succeeds the stored
\* feature holds every supplied field with the supplied value and every other
\* field with its prior value, at the same position, all other features being
\* unchanged.
C7_UpdateFeatureMerges ==
  (/\ call.action = "update_feature" /\ Has(call, "updates")
   /\ TruthyStr(Field(call, "feature_id"))
   /\ Parses(prevFile))
  => LET features == FeaturesOf(prevFile)
         targets == IndicesWithId(features, call.feature_id)
         after == FeaturesOf(file)
     IN IF targets = {} THEN ~resp.success /\ file = prevFile
        ELSE /\ ~Has(call.updates, "milestone") => resp.success
             /\ resp.success =>
                  /\ Len(after) = Len(features)
                  /\ \A k \in (DOMAIN features) \ {Least(targets)} : after[k] = features[k]
                  /\ DOMAIN after[Least(targets)]
                       = (DOMAIN features[Least(targets)]) \cup (DOMAIN call.updates)
                  /\ \A key \in DOMAIN call.updates :
                       after[Least(targets)][key] = call.updates[key]
                  /\ \A key \in (DOMAIN features[Least(targets)]) \ (DOMAIN call.updates) :
                       after[Least(targets)][key] = features[Least(targets)][key]

C7_Witness ==
  /\ call.action = "update_feature" /\ resp.success
  /\ Parses(prevFile)
  /\ IndicesWithId(FeaturesOf(prevFile), call.feature_id) = {2}
  /\ Cardinality(DOMAIN call.updates) = 2
  /\ FeaturesOf(file)[2] # FeaturesOf(prevFile)[2]
  /\ FeaturesOf(file)[1] = FeaturesOf(prevFile)[1]

\* C8: on every document whose metadata block parses, validate_structure with
\* any check_type succeeds and carries {valid, errors, warnings}; defects of
\* the document are reported in errors and warnings.
C8_ValidateNeverFails ==
  (call.action = "validate_structure" /\ Parses(prevFile))
  => resp.success /\ DOMAIN resp.data = {"valid", "errors", "warnings"}

\* the ids of a list are pairwise distinct
DistinctIds(arr) ==
  \A i, j \in DOMAIN arr : i # j => Field(arr[i], "id") # Field(arr[j], "id")

\* C9: when validate_structure with check_type all reports valid = true, the
\* milestone ids are pairwise distinct, the feature ids are pairwise distinct,
\* the task ids are distinct within each feature and every feature's milestone
\* is the id of a milestone; valid is true exactly when errors is empty.
C9_ValidMeansInvariants ==
  (call.action = "validate_structure" /\ resp.success)
  => /\ resp.data.valid <=> resp.data.errors = <<>>
     /\ (Field(call, "check_type") \in {<<>>, <<"all">>} /\ resp.data.valid)
        => /\ DistinctIds(MilestonesOf(file))
           /\ DistinctIds(FeaturesOf(file))
           /\ \A i \in DOMAIN FeaturesOf(file) : DistinctIds(FeaturesOf(file)[i].tasks)
           /\ ReferencesResolve(file)

C9_Witness ==
  /\ call.action = "validate_structure" /\ resp.success
  /\ Field(call, "check_type") = <<"all">>
  /\ resp.data.valid
  /\ Len(FeaturesOf(file)) >= 2
  /\ \E i \in DOMAIN FeaturesOf(file) : Len(FeaturesOf(file)[i].tasks) >= 2

\* C10: read, the three queries, validate_structure and export_summary never
\* write, whether they succeed or fail, and repeating the call gets the same
\* response.
C10_ReadOnlyActionsDoNotWrite ==
  (~Idle /\ ReadOnlyAction(call.action))
  => /\ file = prevFile
     /\ manageGDD(file, call).response = resp

C10_Witness ==
  /\ call.action = "read" /\ resp.success
  /\ writes > 0
  /\ file = prevFile
  /\ resp.data.frontmatter = FrontmatterOf(file)

\* C11: every call returns an envelope: success = false comes with a non-empty
\* error message and nothing else, success = true comes with data and no
\* error; this holds for parameters the schema rejects, a missing file, an
\* unparseable document, a failed entity check and a rejected write.
C11_AlwaysAnEnvelope ==
  ~Idle =>
    /\ "success" \in DOMAIN resp
    /\ IF resp.success
       THEN DOMAIN resp = {"success", "data", "metadata"}
       ELSE DOMAIN resp = {"success", "error"} /\ resp.error # ""

C11_Witness ==
  /\ call.action = "read" /\ Field(call, "priority") = <<"P9">>
  /\ Parses(file)
  /\ ~resp.success /\ resp.error = "ZodError"

\* C16: a mutating call that reports success has written the full serialized
\* document of its mutation; a call whose write was rejected reports
\* success = false with the I/O error although its mutation had succeeded in
\* memory.
C16_SuccessMeansWritten ==
  (~Idle /\ ~ReadOnlyAction(call.action))
  => /\ resp.success =>
          /\ manageGDD(prevFile, call).response.success
          /\ file = manageGDD(prevFile, call).stored
          /\ Parses(file)
     /\ (~resp.success /\ resp.error = "EIO") =>
          manageGDD(prevFile, call).response.success

C16_Witness ==
  /\ ~Idle /\ ~ReadOnlyAction(call.action)
  /\ ~resp.success /\ resp.error = "EIO"
  /\ file = Truncated /\ Parses(prevFile)

\* C17: when the stored text has no fenced metadata block at its start, or
\* when there is no file, every action fails and storage is left as it was
\* (no document is created).
C17_NoFenceNoAction ==
  (~Idle /\ (~prevFile.exists \/ ~prevFile.fenced))
  => ~resp.success /\ file = prevFile

C17_Witness ==
  /\ call.action = "update_content"
  /\ Has(call, "section") /\ Has(call, "content")
  /\ prevFile.exists /\ ~prevFile.fenced
  /\ ~resp.success /\ file = prevFile

\* C18: when the fenced block does not decode to a mapping (a syntax error,
\* or a scalar), every action fails and nothing is written.
C18_NonMappingFails ==
  (~Idle /\ prevFile.exists /\ prevFile.fenced /\ prevFile.yaml.kind # "map")
  => ~resp.success /\ file = prevFile

\* the filters a query_features call supplies, as <<parameter, feature field>>
SuppliedFilters(params) ==
  {pair \in {<<"milestone", "milestone">>, <<"priority", "priority">>,
             <<"feature_id", "id">>} : Has(params, pair[1])}

SatisfiesFilters(feature, params) ==
  \A pair \in SuppliedFilters(params) : Field(feature, pair[2]) = <<params[pair[1]]>>

\* the answer the filters call for: matching features in document order, with
\* an empty task list unless include_tasks is true
ExpectedFeatures(features, params) ==
  LET matching == SelectSeq(features, LAMBDA f : SatisfiesFilters(f, params))
  IN [i \in DOMAIN matching |->
        IF Field(params, "include_tasks") = <<TRUE>> THEN matching[i]
        ELSE [k \in (DOMAIN matching[i]) \cup {"tasks"} |->
                IF k = "tasks" THEN <<>> ELSE matching[i][k]]]

\* C19: query_features on a document with a feature list returns, in document
\* order, exactly the features that satisfy every supplied filter, each with
\* an empty task list unless include_tasks is true, and leaves storage as it
\* was.
C19_QueryFeaturesFilters ==
  (/\ call.action = "query_features"
   /\ Parses(prevFile) /\ Has(FrontmatterOf(prevFile), "features"))
  => /\ resp.success
     /\ resp.data = ExpectedFeatures(FeaturesOf(prevFile), call)
     /\ file = prevFile

\* every task of every feature, in document order
RECURSIVE AllTasksOf(_)
AllTasksOf(features) ==
  IF features = <<>> THEN <<>>
  ELSE Head(features).tasks \o AllTasksOf(Tail(features))

RECURSIVE TotalOf(_)
TotalOf(tasks) ==
  IF tasks = <<>> THEN 0
  ELSE (IF "estimate" \in DOMAIN Head(tasks) THEN Head(tasks).estimate ELSE 0)
       + TotalOf(Tail(tasks))

\* the estimates entry of a JSON summary
EstimatesIn(summary) ==
  summary.text[CHOOSE i \in DOMAIN summary.text : summary.text[i].key = "estimates"].value

\* C20: in a JSON summary that includes estimates, totalEstimate is the sum of
\* the estimates of all tasks, a task without an estimate counting 0, and
\* averageTaskEstimate is totalEstimate divided by the number of tasks, and 0
\* (a number, not NaN) when the document has no tasks.
C20_Estimates ==
  (/\ call.action = "export_summary" /\ resp.success
   /\ Field(call, "format") = <<"json">>
   /\ Field(call, "include") = <<<<"estimates">>>>)
  => LET tasks == AllTasksOf(FeaturesOf(file))
         estimates == EstimatesIn(resp.data)
     IN /\ estimates.totalEstimate = TotalOf(tasks)
        /\ estimates.averageTaskEstimate.den # 0
        /\ estimates.averageTaskEstimate.num * Len(tasks)
             = TotalOf(tasks) * estimates.averageTaskEstimate.den
        /\ Len(tasks) = 0 => estimates.averageTaskEstimate.num = 0

C20_Witness ==
  /\ call.action = "export_summary" /\ resp.success
  /\ Field(call, "format") = <<"json">>
  /\ Field(call, "include") = <<<<"estimates">>>>
  /\ Len(AllTasksOf(FeaturesOf(file))) = 3
  /\ \E i \in 1..3 : ~Has(AllTasksOf(FeaturesOf(file))[i], "estimate")
  /\ EstimatesIn(resp.data).totalEstimate = 8
  /\ EstimatesIn(resp.data).averageTaskEstimate = [num |-> 8, den |-> 3]

ContentOf(stored) == parseFrontmatter(stored).val.content

SectionsOf(stored) == parseMarkdownSections(ContentOf(stored))

\* the same call as an append of other content
AppendOf(params, content) ==
  [action |-> "update_content", section |-> params.section,
   content |-> content, operation |-> "append"]

\* C12: update_content on a heading the body does not have, in any mode,
\* succeeds and gives the previous body followed by a first-level heading with
\* that text and the supplied content as the section's content; an append of
\* other content to the same heading then makes the section's content the
\* first content, a blank line and the other content.
C12_NewSectionThenAppend ==
  (/\ call.action = "update_content" /\ Has(call, "section") /\ Has(call, "content")
   /\ Parses(prevFile)
   /\ ~MapHas(SectionsOf(prevFile), call.section))
  => /\ resp.success
     /\ ContentOf(file)
          = Join(DropLeadingBlank(ContentOf(prevFile)
                   \o <<Blank, Heading(1, call.section), Blank>> \o call.content))
     /\ MapGet(SectionsOf(file), call.section) = call.content
     /\ \A other \in ContentTexts :
          /\ manageGDD(file, AppendOf(call, other)).response.success
          /\ MapGet(SectionsOf(manageGDD(file, AppendOf(call, other)).stored), call.section)
               = call.content \o <<Blank>> \o other

\* the lines before the first heading line
RECURSIVE Preamble(_)
Preamble(content) ==
  IF content = <<>> \/ Head(content).h > 0 THEN <<>>
  ELSE <<Head(content)>> \o Preamble(Tail(content))

\* one block per heading line: its level, its text and the lines up to the
\* next heading line
RECURSIVE BlocksFrom(_, _)
BlocksFrom(lines, blocks) ==
  IF lines = <<>> THEN blocks
  ELSE IF Head(lines).h > 0
  THEN BlocksFrom(Tail(lines),
                  Append(blocks, [h |-> Head(lines).h, t |-> Head(lines).t, body |-> <<>>]))
  ELSE IF blocks = <<>> THEN BlocksFrom(Tail(lines), blocks)
  ELSE BlocksFrom(Tail(lines),
                  [blocks EXCEPT ![Len(blocks)].body = Append(@, Head(lines))])

\* the blocks under other heading texts, their content without surrounding
\* blank lines
OtherBlocks(content, section) ==
  LET others == SelectSeq(BlocksFrom(content, <<>>), LAMBDA b : b.t # section)
  IN [i \in DOMAIN others |-> [others[i] EXCEPT !.body = Trim(Join(@))]]

\* C13: update_content on a heading the body has changes that section's
\* content as the mode says and nothing else: the text before the first
\* heading, the other sections' heading lines with their levels, their content
\* and their order are as before.
C13_OtherRegionsPreserved ==
  (/\ call.action = "update_content" /\ resp.success
   /\ Parses(prevFile)
   /\ MapHas(SectionsOf(prevFile), call.section))
  => /\ MapGet(SectionsOf(file), call.section)
          = (IF Field(call, "operation") = <<"append">>
             THEN MapGet(SectionsOf(prevFile), call.section) \o <<Blank>> \o call.content
             ELSE IF Field(call, "operation") = <<"prepend">>
             THEN call.content \o <<Blank>> \o MapGet(SectionsOf(prevFile), call.section)
             ELSE call.content)
     /\ Trim(Join(Preamble(ContentOf(file)))) = Trim(Join(Preamble(ContentOf(prevFile))))
     /\ OtherBlocks(ContentOf(file), call.section)
          = OtherBlocks(ContentOf(prevFile), call.section)
     /\ Len(BlocksFrom(ContentOf(file), <<>>)) = Len(BlocksFrom(ContentOf(prevFile), <<>>))

C15_LastWriteWins ==
  (/\ Finished = Callers
   /\ \A c \in Callers : inflight[c].response.success /\ inflight[c].bothLoaded)
  => \A c \in Callers : inflight[c].order = 2 => file = inflight[c].text

\* a call that changes the document has returned successfully
MutationSucceeded == ~Idle /\ ~ReadOnlyAction(call.action) /\ resp.success

\* C21: after any successful mutating operation, update_frontmatter replacing
\* the milestones or the features included, every stored feature's milestone
\* is the id of an existing milestone (the document before the operation
\* having had that property).
C21_MutationsKeepReferences ==
  (MutationSucceeded /\ Parses(prevFile) /\ ReferencesResolve(prevFile))
  => ReferencesResolve(file)

\* the top-level keys of a document's metadata beside the typed ones
ExtraKeys(stored) ==
  IF Parses(stored) /\ ~IsNumber(FrontmatterOf(stored))
  THEN DOMAIN FrontmatterOf(stored) \ TypedKeys ELSE {}

\* C22: every top-level metadata key other than project, version, milestones
\* and features is stored with the same value after a successful add_feature,
\* update_feature, add_task, update_task or update_content, and after a
\* successful update_frontmatter unless the key is among the updates.
C22_ExtraKeysPreserved ==
  MutationSucceeded =>
    \A k \in ExtraKeys(prevFile) :
      \/ call.action = "update_frontmatter" /\ k \in DOMAIN call.updates
      \/ /\ k \in ExtraKeys(file)
         /\ FrontmatterOf(file)[k] = FrontmatterOf(prevFile)[k]

\* two operations in a row have each kept the document's own key: a feature
\* was updated, and before it another mutation was saved
C22_Witness ==
  /\ MutationSucceeded /\ call.action = "update_feature" /\ writes = 2
  /\ "engine" \in ExtraKeys(prevFile) /\ "engine" \in ExtraKeys(file)
  /\ FrontmatterOf(file).engine = "roblox"
  /\ FeaturesOf(file) # FeaturesOf(prevFile)

(***************************************************************************)
(* Key order.  A JavaScript object keeps its string keys in insertion      *)
(* order, so here an object is the list of its entries in that order and   *)
(* the YAML text of a mapping is the list of its `key: value` lines.       *)
(***************************************************************************)
Entry(key, value) == [key |-> key, value |-> value]

HasKey(obj, key) == \E i \in DOMAIN obj : obj[i].key = key

\* obj[key] = value: an existing key keeps its place, a new one goes last
Assign(obj, entry) ==
  IF HasKey(obj, entry.key)
  THEN [i \in DOMAIN obj |-> IF obj[i].key = entry.key THEN entry ELSE obj[i]]
  ELSE Append(obj, entry)

\* { ...a, ...b } with the keys in the order the spread defines them
RECURSIVE SpreadInOrder(_, _)
SpreadInOrder(a, b) ==
  IF b = <<>> THEN a ELSE SpreadInOrder(Assign(a, Head(b)), Tail(b))

\* yaml.load of a mapping: the keys are defined in document order
yamlLoadInOrder(lines) ==
  [i \in DOMAIN lines |-> Entry(lines[i][1], lines[i][2])]

\* the keys of the model in the order sortKeys: true would emit them
SortedKeys == <<"engine", "features", "milestones", "project", "version">>

RECURSIVE EntriesInOrder(_, _)
EntriesInOrder(keys, obj) ==
  IF keys = <<>> THEN <<>>
  ELSE (IF HasKey(obj, Head(keys))
        THEN <<obj[CHOOSE i \in DOMAIN obj : obj[i].key = Head(keys)]>>
        ELSE <<>>) \o EntriesInOrder(Tail(keys), obj)

\* yaml.dump(frontmatter, options): one line per key, in Object.keys order
\* unless options.sortKeys
yamlDumpInOrder(obj, options) ==
  LET emitted == IF options.sortKeys THEN EntriesInOrder(SortedKeys, obj) ELSE obj
  IN [i \in DOMAIN emitted |-> <<emitted[i].key, emitted[i].value>>]

\* the options serializeGDD passes
DumpOptions == [indent |-> 2, lineWidth |-> -1, noRefs |-> TRUE, sortKeys |-> FALSE]

StoredLines(lines) == [exists |-> TRUE, fenced |-> TRUE, yaml |-> lines, body |-> <<Blank>>]

\* update_frontmatter and update_content on a document whose metadata is a
\* mapping, keys in order
manageGDDInOrder(stored, params) ==
  LET frontmatter == yamlLoadInOrder(stored.yaml)
  IN IF params.action = "update_frontmatter"
     THEN IF ~Has(params, "updates")
          THEN Outcome(Failure("Updates parameter is required for update_frontmatter action"),
                       stored)
          ELSE Outcome([success |-> TRUE,
                        data |-> SpreadInOrder(frontmatter, params.updates)],
                       StoredLines(yamlDumpInOrder(
                         SpreadInOrder(frontmatter, params.updates), DumpOptions)))
     ELSE Outcome([success |-> TRUE, data |-> frontmatter],
                  StoredLines(yamlDumpInOrder(frontmatter, DumpOptions)))

\* the same metadata written with its keys in different orders
LinesInOrder ==
  { <<<<"project", "Game">>, <<"version", "1.0">>, <<"milestones", "M1">>,
      <<"features", "F1">>>>,
    <<<<"version", "1.0">>, <<"project", "Game">>, <<"milestones", "M1">>,
      <<"features", "F1">>>>,
    <<<<"project", "Game">>, <<"version", "1.0">>, <<"features", "F1">>,
      <<"milestones", "M1">>>>,
    <<<<"engine", "roblox">>, <<"project", "Game">>, <<"version", "1.0">>,
      <<"milestones", "M1">>, <<"features", "F1">>>>,
    <<<<"project", "Game">>, <<"version", "1.0">>, <<"milestones", "M1">>,
      <<"features", "F1">>, <<"engine", "roblox">>>>,
    <<<<"milestones", "M1">>, <<"features", "F1">>>> }

UpdatesInOrder ==
  { <<Entry("version", "2.0")>>,
    <<Entry("engine", "roblox")>>,
    <<Entry("project", "Game"), Entry("version", "1.0")>>,
    <<Entry("version", "1.0"), Entry("project", "Game")>>,
    <<Entry("engine", "unity"), Entry("version", "2.0")>>,
    <<Entry("version", "2.0"), Entry("engine", "unity")>> }

KeyOrderParams ==
  WithOptional(Params("update_frontmatter"), "updates", UpdatesInOrder)
    \cup {Spread(Params("update_content"),
                 [section |-> "Notes", content |-> <<Text("new")>>])}

InitKeyOrder ==
  /\ file \in {StoredLines(lines) : lines \in LinesInOrder}
  /\ prevFile = file
  /\ call = Params("none")
  /\ resp = Failure("none")
  /\ writes = 0
  /\ inflight = NoCalls

UpdateInOrder ==
  \E params \in KeyOrderParams :
    /\ params.action = "update_frontmatter"
    /\ Idle /\ Record(params, manageGDDInOrder(file, params))

ResaveInOrder ==
  \E params \in KeyOrderParams :
    /\ params.action = "update_content"
    /\ Idle /\ Record(params, manageGDDInOrder(file, params))

NextKeyOrder == UpdateInOrder \/ ResaveInOrder \/ Deliver

SpecKeyOrder == InitKeyOrder /\ [][NextKeyOrder]_vars

\* the mappings the program builds from the documents and updates of the model
BuiltInOrder ==
  {yamlLoadInOrder(lines) : lines \in LinesInOrder} \cup
  {SpreadInOrder(yamlLoadInOrder(lines), updates) :
     lines \in LinesInOrder, updates \in UpdatesInOrder}

\* the same keys with the same values
SameEntries(a, b) == {a[i] : i \in DOMAIN a} = {b[i] : i \in DOMAIN b}

\* the typed keys of a text, in the order of their lines
RECURSIVE TypedKeysIn(_)
TypedKeysIn(lines) ==
  IF lines = <<>> THEN <<>>
  ELSE (IF Head(lines)[1] \in TypedKeys THEN <<Head(lines)[1]>> ELSE <<>>)
         \o TypedKeysIn(Tail(lines))

\* a list is a subsequence of project, version, milestones, features
InSchemaOrder(keys) ==
  \A i, j \in DOMAIN keys :
    i < j => \E m, n \in 1..4 :
               /\ m < n
               /\ <<"project", "version", "milestones", "features">>[m] = keys[i]
               /\ <<"project", "version", "milestones", "features">>[n] = keys[j]

\* C23: serialization depends on the content alone: a saved document's text is
\* the text of every mapping with the same keys and values, whatever the order
\* in which its keys were inserted, and its typed keys come in the schema's
\* order project, version, milestones, features.
C23_SerializationIgnoresKeyOrder ==
  (~Idle /\ resp.success) =>
    /\ \A obj \in BuiltInOrder :
         SameEntries(obj, yamlLoadInOrder(file.yaml))
           => yamlDumpInOrder(obj, DumpOptions) = file.yaml
    /\ InSchemaOrder(TypedKeysIn(file.yaml))

\* the position of the entity a successful update_feature / update_task call
\* merged its updates into: the first feature with the id, the first task with
\* the id in the first feature holding one
UpdatedFeatureIndex == Least(IndicesWithId(FeaturesOf(prevFile), call.feature_id))

UpdatedTaskFeatureIndex ==
  Least({i \in DOMAIN FeaturesOf(prevFile) :
           IndicesWithId(FeaturesOf(prevFile)[i].tasks, call.task_id) # {}})

UpdatedTaskIndex ==
  Least(IndicesWithId(FeaturesOf(prevFile)[UpdatedTaskFeatureIndex].tasks, call.task_id))

\* C24: a successful update_feature returns as data the feature as it is
\* stored after the merge, and a successful update_task the task as it is
\* stored after the merge (beside the feature id the task is annotated with),
\* for every updates object, one that supplies an id included.
C24_UpdateReturnsStoredEntity ==
  /\ (call.action = "update_feature" /\ resp.success)
       => resp.data = FeaturesOf(file)[UpdatedFeatureIndex]
  /\ (call.action = "update_task" /\ resp.success)
       => Omit(resp.data, "featureId")
            = FeaturesOf(file)[UpdatedTaskFeatureIndex].tasks[UpdatedTaskIndex]

\* C25: when the save step of a call fails, the stored document is exactly
\* the version from before the call: the save is one atomic overwrite and
\* never leaves an empty, truncated or partly written file.
C25_FailedSaveKeepsPriorVersion ==
  (~Idle /\ ~resp.success /\ resp.error = "EIO") => file = prevFile

\* validate_structure with check_type all succeeds on the document and
\* reports valid = true
ValidAll(stored) ==
  LET response == manageGDD(stored, Spread(Params("validate_structure"),
                                           [check_type |-> "all"])).response
  IN response.success /\ response.data.valid

\* C26: when the document passes validate_structure with check_type all, it
\* still passes after any successful add_feature or add_task, whatever
\* payload the input schema accepted (a feature that omits fields included).
C26_AddsKeepDocumentValid ==
  (/\ call.action \in {"add_feature", "add_task"} /\ resp.success
   /\ ValidAll(prevFile))
  => ValidAll(file)

\* the feature ids are pairwise distinct and so are the task ids of each feature
IdsDistinct(stored) ==
  /\ DistinctIds(FeaturesOf(stored))
  /\ \A i \in DOMAIN FeaturesOf(stored) :
       Has(FeaturesOf(stored)[i], "tasks") => DistinctIds(FeaturesOf(stored)[i].tasks)

\* C27: starting from a document whose feature ids are pairwise distinct and
\* whose task ids are distinct within each feature, the ids are still so after
\* any successful update_feature or update_task, updates that supply an id or
\* a tasks list included.
C27_UpdatesKeepIdsDistinct ==
  (/\ call.action \in {"update_feature", "update_task"} /\ resp.success
   /\ Parses(prevFile) /\ IdsDistinct(prevFile))
  => IdsDistinct(file)

(***************************************************************************)
(* Callers that add features and tasks at the same time, on a storage      *)
(* whose reads and writes are each one step: a caller loads the document,  *)
(* works on its copy, and saves the whole text it computed.                *)
(***************************************************************************)
AdderDocuments ==
  { Stored(Frontmatter(M12, <<>>), EmptyBody),
    Stored(Frontmatter(M12, <<Feature("F1", "M1", "P1",
                                      <<TaskWithEstimate("T1", "x", 5)>>)>>), SomeBody) }

\* additions that succeed, that repeat an id, that name an unknown milestone
\* or an unknown feature, and a feature without an id
AdderParams ==
  {Spread(Params("add_feature"), [feature |-> feature]) :
     feature \in {Feature("F2", "M1", "P2", <<TaskWithEstimate("T1", "x", 5)>>),
                  Feature("F1", "M1", "P1", <<>>),
                  Feature("F2", "M9", "P2", <<>>),
                  Omit(Feature("F2", "M1", "P2", <<>>), "id")}}
  \cup {Spread(Params("add_task"), [feature_id |-> "F1", task |-> task]) :
          task \in {Task("T1", "y"), Task("T2", "y")}}
  \cup {Spread(Params("add_task"), [feature_id |-> "F2", task |-> Task("T1", "y")])}

InitAdders ==
  /\ file \in AdderDocuments
  /\ prevFile = file
  /\ call = Params("none")
  /\ resp = Failure("none")
  /\ writes = 0
  /\ inflight = NoCalls

\* fs.readFile resolves: the caller holds the text its call will work on
LoadForAdd(c) ==
  /\ inflight[c].pc \in {"idle", "done"}
  /\ \E params \in AdderParams :
       inflight' = [inflight EXCEPT ![c] = [pc |-> "loaded", params |-> params,
                                           loaded |-> file]]
  /\ UNCHANGED <<file, prevFile, call, resp, writes>>

\* the switch runs on the loaded copy and, when it succeeds, fs.writeFile
\* replaces the stored text by the serialized copy; the call returns
SaveWhole(c, outcome) ==
  /\ inflight[c].pc = "loaded"
  /\ Wrote(inflight[c].params, outcome.response) => writes < MaxWrites
  /\ file' = IF Wrote(inflight[c].params, outcome.response) THEN outcome.stored ELSE file
  /\ writes' = IF Wrote(inflight[c].params, outcome.response) THEN writes + 1 ELSE writes
  /\ inflight' = [inflight EXCEPT ![c] = [pc |-> "done", params |-> inflight[c].params,
                                          loaded |-> inflight[c].loaded,
                                          response |-> outcome.response]]
  /\ UNCHANGED <<prevFile, call, resp>>

LoadAdd == \E c \in Callers : LoadForAdd(c)

SaveAdd ==
  \E c \in Callers :
    /\ inflight[c].pc = "loaded"
    /\ SaveWhole(c, manageGDD(inflight[c].loaded, inflight[c].params))

NextAdders == LoadAdd \/ SaveAdd

SpecAdders == InitAdders /\ [][NextAdders]_vars

\* C28: when several callers issue add_feature and add_task calls at the same
\* time, each load and each save being one step, every document ever stored
\* has pairwise distinct feature ids, distinct task ids within each feature
\* and features whose milestones all exist (the first document having these
\* properties); an update may be lost but the invariants are not.
C28_ConcurrentAddsKeepInvariants ==
  /\ Parses(file)
  /\ IdsDistinct(file)
  /\ DistinctIds(MilestonesOf(file))
  /\ ReferencesResolve(file)

\* both callers loaded the same document and both saved: the second save
\* replaced the first caller's addition
C28_Witness ==
  /\ writes = 2
  /\ \A c \in Callers : inflight[c].pc = "done" /\ inflight[c].response.success
  /\ inflight["a"].loaded = inflight["b"].loaded
  /\ inflight["a"].params.action = "add_feature"
  /\ inflight["b"].params.action = "add_task"
  /\ file = manageGDD(inflight["b"].loaded, inflight["b"].params).stored
  /\ Len(FeaturesOf(file)) = Len(FeaturesOf(inflight["b"].loaded))

\* C29: the body and the metadata are edited independently: a successful
\* add_feature, update_feature, add_task, update_task or update_frontmatter
\* leaves the parsed body as it was, and a successful update_content leaves
\* the milestones, the features with their tasks and every other metadata key
\* as they were.
C29_BodyAndMetadataIndependent ==
  (MutationSucceeded /\ Parses(prevFile))
  => IF call.action = "update_content"
     THEN FrontmatterOf(file) = FrontmatterOf(prevFile)
     ELSE ContentOf(file) = ContentOf(prevFile)

\* a task was added to a document whose body had been given a new section by
\* the call before: the section is still there, the metadata changed
C29_Witness ==
  /\ MutationSucceeded /\ call.action = "add_task" /\ writes = 2
  /\ MapHas(SectionsOf(file), "Notes")
  /\ ContentOf(file) = ContentOf(prevFile)
  /\ FrontmatterOf(file) # FrontmatterOf(prevFile)

\* C30: update_content with operation replace is idempotent: the same call
\* made a second time succeeds and leaves the document, its parsed body and
\* its metadata, as the first call left it, for every body (text before the first heading, deeper
\* headings and repeated heading text included), section and content.
C30_ReplaceIsIdempotent ==
  (/\ call.action = "update_content" /\ resp.success
   /\ Field(call, "operation") \in {<<>>, <<"replace">>})
  => /\ manageGDD(file, call).response.success
     /\ ContentOf(manageGDD(file, call).stored) = ContentOf(file)
     /\ FrontmatterOf(manageGDD(file, call).stored) = FrontmatterOf(file)

====
